---- MODULE Spec2Model ----
(***************************************************************************)
(* Bonding-curve pricing engine (Bancor, Linear, Exponential, Logarithmic, *)
(* Sigmoid) over signed binary fixed-point numbers.                        *)
(*                                                                         *)
(* Numbers.  The source computes in I64F64 (128 bits, 64 fractional) and   *)
(* evaluates transcendental functions in f64 (53-bit significand).  The    *)
(* model keeps the same arithmetic rules on a narrower format: WordBits    *)
(* bits with FracBits fractional bits, and a float with MantBits           *)
(* significant bits.  A fixed-point value is its raw integer (value *      *)
(* Scale).  Rules kept from the `fixed` crate and from Rust:               *)
(*   + - and unary -   exact, overflow panics (debug) or wraps (release)   *)
(*   *                 product shifted right arithmetically (floor),       *)
(*                     overflow panics (debug) or wraps (release)          *)
(*   /                 quotient truncated toward zero, division by zero    *)
(*                     panics, overflow panics (debug) or wraps (release)  *)
(*   from_num(f64)     rounds to nearest; a value that does not fit panics *)
(*                     (debug) or wraps (release); NaN and infinities      *)
(*                     panic                                               *)
(*   to_num::<f64>()   rounds to nearest, ties to even, to the significand *)
(* A panic unwinds out of the call: the fields written before it keep      *)
(* their new value, the call returns nothing, and the run stops.           *)
(***************************************************************************)
EXTENDS Integers, Sequences, FiniteSets, TLC

VARIABLES build, curve, last, obs, nops, paid

vars == <<build, curve, last, obs, nops, paid>>

-----------------------------------------------------------------------------
(* Number formats *)

FracBits == 4
WordBits == 16
MantBits == 8

Scale == 2 ^ FracBits
Modulus == 2 ^ WordBits
MaxRaw == (2 ^ (WordBits - 1)) - 1
MinRaw == -(2 ^ (WordBits - 1))

\* Markers that are not fixed-point values.
PANIC == 90000001
CALC_ERR == 90000002
F64_INF == 90000003
F64_NAN == 90000004
F64_BIG == 90000005

IsNum(x) == x >= MinRaw /\ x <= MaxRaw

Abs(x) == IF x < 0 THEN -x ELSE x

Fx(n) == n * Scale

WrapRaw(x) == ((x - MinRaw) % Modulus) + MinRaw

Overflowed(x) == IF build = "debug" THEN PANIC ELSE WrapRaw(x)

Checked(x) == IF IsNum(x) THEN x ELSE Overflowed(x)

TruncDiv(a, b) ==
  LET q == Abs(a) \div Abs(b)
  IN IF (a < 0) = (b < 0) THEN q ELSE -q

IsMarker(x) == x >= PANIC

\* The first operand that is not a number, in evaluation order.
Marker2(a, b) == IF IsMarker(a) THEN a ELSE b

FxAdd(a, b) ==
  IF IsMarker(a) \/ IsMarker(b) THEN Marker2(a, b) ELSE Checked(a + b)

FxSub(a, b) ==
  IF IsMarker(a) \/ IsMarker(b) THEN Marker2(a, b) ELSE Checked(a - b)

FxNeg(a) == IF IsMarker(a) THEN a ELSE Checked(-a)

FxMul(a, b) ==
  IF IsMarker(a) \/ IsMarker(b) THEN Marker2(a, b)
  ELSE Checked((a * b) \div Scale)

FxDiv(a, b) ==
  IF IsMarker(a) \/ IsMarker(b) THEN Marker2(a, b)
  ELSE IF b = 0 THEN PANIC
  ELSE Checked(TruncDiv(a * Scale, b))

\* The first value of a sequence of let-bindings, in program order, that is
\* not a number: the point where the function returns early or unwinds.
FirstMarker(seq) ==
  IF \E i \in 1..Len(seq) : IsMarker(seq[i])
  THEN seq[CHOOSE i \in 1..Len(seq) :
             IsMarker(seq[i]) /\ \A j \in 1..(i - 1) : ~IsMarker(seq[j])]
  ELSE 0

-----------------------------------------------------------------------------
(* f64 and libm *)

RoundHalfEven(n, u) ==
  LET q == n \div u
      r == n % u
  IN IF 2 * r < u THEN q
     ELSE IF 2 * r > u THEN q + 1
     ELSE IF q % 2 = 0 THEN q ELSE q + 1

RECURSIVE MantUnit(_, _)
MantUnit(n, u) == IF n < (2 ^ MantBits) * u THEN u ELSE MantUnit(n, 2 * u)

RoundMant(x) ==
  LET u == MantUnit(Abs(x), 1)
      m == RoundHalfEven(Abs(x), u) * u
  IN IF x < 0 THEN -m ELSE m

\* value.to_num::<f64>()
to_num(x) == RoundMant(x)

is_finite(v) == v # F64_INF /\ v # F64_NAN

\* A finite f64 too large for the tables below.  It is at least
\* 2^(MantBits + WordBits) raw units, so after rounding to the significand
\* it is a multiple of Modulus and wraps to 0.
BigFrom == 2 ^ (MantBits + WordBits)

\* I64F64::from_num(result) for an f64 produced by libm: panics (debug) or
\* wraps (release) when the value does not fit.  The libm operators below
\* return the result already rounded to the nearest multiple of 2^-FracBits,
\* which is all from_num keeps of it.
from_num(v) == IF v = F64_BIG THEN Overflowed(0) ELSE Checked(v)

\* round(exp(r / Scale) * Scale) for r = ExpLo .. ExpHi; exp(r / Scale) is
\* infinite in f64 from r = ExpInfFrom on
ExpLo == -55
ExpHi == 221
ExpInfFrom == 11357
ExpTable ==
  << 1, 1, 1, 1, 1, 1, 1, 1,
     1, 1, 1, 1, 1, 1, 1, 1,
     1, 1, 2, 2, 2, 2, 2, 2,
     2, 2, 3, 3, 3, 3, 3, 4,
     4, 4, 4, 5, 5, 5, 6, 6,
     6, 7, 7, 8, 8, 9, 9, 10,
     10, 11, 12, 12, 13, 14, 15, 16,
     17, 18, 19, 21, 22, 23, 25, 26,
     28, 30, 32, 34, 36, 38, 41, 43,
     46, 49, 52, 56, 59, 63, 67, 72,
     76, 81, 86, 92, 98, 104, 111, 118,
     126, 134, 143, 152, 162, 172, 183, 195,
     207, 221, 235, 250, 266, 284, 302, 321,
     342, 364, 388, 413, 439, 468, 498, 530,
     564, 600, 639, 680, 724, 771, 821, 874,
     930, 990, 1054, 1122, 1194, 1271, 1353, 1440,
     1533, 1632, 1737, 1849, 1969, 2096, 2231, 2375,
     2528, 2691, 2864, 3049, 3246, 3455, 3678, 3915,
     4168, 4436, 4722, 5027, 5351, 5696, 6064, 6455,
     6871, 7314, 7786, 8288, 8823, 9392, 9997, 10642,
     11329, 12059, 12837, 13665, 14546, 15484, 16483, 17546,
     18678, 19882, 21165, 22530, 23983, 25529, 27176, 28929,
     30794, 32780, 34895, 37145, 39541, 42091, 44806, 47695,
     50771, 54046, 57532, 61242, 65192, 69396, 73872, 78636,
     83708, 89107, 94853, 100971, 107483, 114415, 121794, 129649,
     138011, 146912, 156387, 166473, 177210, 188639, 200805, 213756,
     227542, 242217, 257839, 274468, 292169, 311013, 331071, 352423,
     375153, 399348, 425104, 452521, 481706, 512773, 545844, 581048,
     618522, 658414, 700878, 746080, 794199, 845420, 899945, 957986,
     1019771, 1085541, 1155552, 1230079, 1309412, 1393862, 1483758, 1579452,
     1681318, 1789754, 1905183, 2028057, 2158855, 2298090, 2446304, 2604077,
     2772025, 2950805, 3141116, 3343701, 3559351, 3788909, 4033273, 4293397,
     4570297, 4865056, 5178825, 5512830, 5868377, 6246855, 6649743, 7078614,
     7535146, 8021121, 8538439, 9089121, 9675319, 10299323, 10963572, 11670662,
     12423355, 13224592, 14077505, 14985427, 15951904 >>

libm_exp(x) ==
  IF x >= ExpInfFrom THEN F64_INF
  ELSE IF x > ExpHi THEN F64_BIG
  ELSE IF x < ExpLo THEN 0
  ELSE RoundMant(ExpTable[x - ExpLo + 1])

\* LnThreshold[i] is the least raw r with round(ln(r / Scale) * Scale) >=
\* LnLo + i - 1
LnLo == -44
LnThreshold ==
  << 1, 2, 2, 2, 2, 2, 2, 2, 2, 2, 2, 2,
       3, 3, 3, 3, 3, 3, 4, 4, 4, 4, 4, 5,
       5, 5, 6, 6, 6, 7, 7, 7, 8, 8, 9, 9,
       10, 11, 11, 12, 13, 13, 14, 15, 16, 17, 18, 19,
       20, 22, 23, 25, 26, 28, 29, 31, 33, 35, 38, 40,
       43, 45, 48, 51, 55, 58, 62, 66, 70, 74, 79, 84,
       90, 95, 102, 108, 115, 122, 130, 139, 148, 157, 167, 178,
       189, 202, 215, 228, 243, 259, 275, 293, 312, 332, 353, 376,
       400, 426, 454, 483, 514, 547, 582, 620, 660, 702, 748, 796,
       847, 902, 960, 1022, 1088, 1158, 1232, 1312, 1396, 1486, 1582, 1684,
       1793, 1909, 2032, 2163, 2302, 2450, 2608, 2777, 2956, 3146, 3349, 3565,
       3795, 4040, 4300, 4578, 4873, 5187, 5522, 5878, 6257, 6660, 7090, 7547,
       8034, 8552, 9103, 9690, 10315, 10981, 11689, 12443, 13245, 14099, 15009, 15976,
       17007, 18104, 19271, 20514, 21837, 23245, 24745, 26340, 28039, 29847, 31772 >>

libm_log(x) ==
  (LnLo - 1) + Cardinality({i \in 1..Len(LnThreshold) : LnThreshold[i] <= x})

RECURSIVE ISqrtR(_, _, _)
ISqrtR(n, lo, hi) ==
  IF lo >= hi THEN lo
  ELSE LET mid == (lo + hi + 1) \div 2
       IN IF mid * mid <= n THEN ISqrtR(n, mid, hi) ELSE ISqrtR(n, lo, mid - 1)

ISqrt(n) == ISqrtR(n, 0, 46340)

Big(v) == IF v >= BigFrom THEN F64_BIG ELSE RoundMant(v)

\* b^3 / Scale^2, to the nearest raw unit while b^3 is computable
Cube(b) ==
  IF b <= 1290 THEN (b * b * b + 128) \div 256
  ELSE (((b * b) \div Scale) * b + (Scale \div 2)) \div Scale

\* round(sqrt(x / Scale) * Scale); NaN below zero
libm_sqrt(x) ==
  IF x < 0 THEN F64_NAN ELSE RoundMant((ISqrt(4 * Scale * x) + 1) \div 2)

\* libm::pow(b, e) for b >= 0: computed from squares, cubes and square roots
\* for the exponents 1/2, 1, 3/2, 2 and 3, and as exp(e * ln b) otherwise.
PowNonNegative(b, e) ==
  LET h == Scale \div 2
      q == ISqrt(b * 16384)
  IN IF e = 0 THEN Fx(1)
     ELSE IF b = 0 /\ e > 0 THEN 0
     ELSE IF e = h THEN RoundMant((ISqrt(4 * Scale * b) + 1) \div 2)
     ELSE IF e = 2 * h THEN RoundMant(b)
     ELSE IF e = 3 * h THEN Big((b * q + 256) \div 512)
     ELSE IF e = 4 * h THEN Big((b * b + (Scale \div 2)) \div Scale)
     ELSE IF e = 6 * h THEN IF b >= 1626 THEN F64_BIG ELSE Big(Cube(b))
     ELSE IF b = 0 THEN F64_INF
     ELSE libm_exp(RoundMant((e * libm_log(b)) \div Scale))

\* exp_f64.fract() != 0.0
HasFraction(e) == e % Scale # 0

\* libm::pow(b, e): a negative base gives NaN for a fractional exponent and
\* otherwise the power of |b|, negated when the exponent is odd.
libm_pow(b, e) ==
  IF b >= 0 THEN PowNonNegative(b, e)
  ELSE IF HasFraction(e) THEN F64_NAN
  ELSE LET p == PowNonNegative(-b, e)
       IN IF IsMarker(p) \/ (e \div Scale) % 2 = 0 THEN p ELSE -p

-----------------------------------------------------------------------------
(* Results of a call *)

Ok(v, c) == [res |-> "Ok", val |-> v, curve |-> c]

InvalidInput(c) == [res |-> "InvalidInput", val |-> 0, curve |-> c]

CalculationError(c) == [res |-> "CalculationError", val |-> 0, curve |-> c]

Panic(c) == [res |-> "Panic", val |-> 0, curve |-> c]

\* The early exit a marker stands for; c is the curve as it is at that point.
Exit(m, c) == IF m = CALC_ERR THEN CalculationError(c) ELSE Panic(c)

NoCurve == [variant |-> "None"]

-----------------------------------------------------------------------------
(* Bancor *)

\* I64F64::from_num(0.0001), the price of the first tokens: the smallest
\* positive value of the narrower format stands for it.
BootstrapPrice == 1

Bancor_get_price(c) ==
  IF c.token_supply = Fx(0) THEN Ok(Fx(0), c)
  ELSE LET p == FxDiv(c.reserve_balance,
                      FxMul(c.token_supply, c.connector_weight))
       IN IF IsMarker(p) THEN Exit(p, c) ELSE Ok(p, c)

\* Bancor_buy_token with the reserve written before the price is validated
Bancor_buy_token_WritesFirst(c, reserve_amount) ==
  IF reserve_amount <= Fx(0) THEN InvalidInput(c)
  ELSE LET pr == Bancor_get_price(c)
           price == pr.val
           tokens_issued == IF c.token_supply = Fx(0)
                            THEN FxDiv(reserve_amount, BootstrapPrice)
                            ELSE FxDiv(reserve_amount, price)
           reserve_new == FxAdd(c.reserve_balance, reserve_amount)
           c1 == [c EXCEPT !.reserve_balance = reserve_new]
           supply_new == FxAdd(c.token_supply, tokens_issued)
           c2 == [c1 EXCEPT !.token_supply = supply_new]
       IN IF pr.res # "Ok" THEN pr
          ELSE IF IsMarker(reserve_new) THEN Exit(reserve_new, c)
          ELSE IF price = Fx(0) /\ c.token_supply # Fx(0)
            THEN CalculationError(c1)
          ELSE IF IsMarker(tokens_issued) THEN Exit(tokens_issued, c1)
          ELSE IF IsMarker(supply_new) THEN Exit(supply_new, c1)
          ELSE Ok(tokens_issued, c2)

Bancor_buy_token(c, reserve_amount) ==
  IF reserve_amount <= Fx(0) THEN InvalidInput(c)
  ELSE LET pr == Bancor_get_price(c)
           price == pr.val
           tokens_issued == IF c.token_supply = Fx(0)
                            THEN FxDiv(reserve_amount, BootstrapPrice)
                            ELSE FxDiv(reserve_amount, price)
           reserve_new == FxAdd(c.reserve_balance, reserve_amount)
           c1 == [c EXCEPT !.reserve_balance = reserve_new]
           supply_new == FxAdd(c.token_supply, tokens_issued)
           c2 == [c1 EXCEPT !.token_supply = supply_new]
       IN IF pr.res # "Ok" THEN pr
          ELSE IF price = Fx(0) /\ c.token_supply # Fx(0)
            THEN CalculationError(c)
          ELSE IF IsMarker(tokens_issued) THEN Exit(tokens_issued, c)
          ELSE IF IsMarker(reserve_new) THEN Exit(reserve_new, c)
          ELSE IF IsMarker(supply_new) THEN Exit(supply_new, c1)
          ELSE Ok(tokens_issued, c2)

\* Bancor_sell_token that takes the payout from connector_weight
Bancor_sell_token_WritesWeight(c, token_amount) ==
  IF token_amount <= Fx(0) \/ token_amount > c.token_supply
  THEN InvalidInput(c)
  ELSE LET pr == Bancor_get_price(c)
           reserve_received == FxMul(token_amount, pr.val)
           supply_new == FxSub(c.token_supply, token_amount)
           c1 == [c EXCEPT !.token_supply = supply_new]
           reserve_new == FxSub(c.connector_weight, reserve_received)
           c2 == [c1 EXCEPT !.connector_weight = reserve_new]
       IN IF pr.res # "Ok" THEN pr
          ELSE IF IsMarker(reserve_received) THEN Exit(reserve_received, c)
          ELSE IF IsMarker(supply_new) THEN Exit(supply_new, c)
          ELSE IF IsMarker(reserve_new) THEN Exit(reserve_new, c1)
          ELSE Ok(reserve_received, c2)

Bancor_sell_token(c, token_amount) ==
  IF token_amount <= Fx(0) \/ token_amount > c.token_supply
  THEN InvalidInput(c)
  ELSE LET pr == Bancor_get_price(c)
           reserve_received == FxMul(token_amount, pr.val)
           supply_new == FxSub(c.token_supply, token_amount)
           c1 == [c EXCEPT !.token_supply = supply_new]
           reserve_new == FxSub(c.reserve_balance, reserve_received)
           c2 == [c1 EXCEPT !.reserve_balance = reserve_new]
       IN IF pr.res # "Ok" THEN pr
          ELSE IF IsMarker(reserve_received) THEN Exit(reserve_received, c)
          ELSE IF IsMarker(supply_new) THEN Exit(supply_new, c)
          ELSE IF IsMarker(reserve_new) THEN Exit(reserve_new, c1)
          ELSE Ok(reserve_received, c2)

-----------------------------------------------------------------------------
(* Linear *)

Linear_get_price(c) ==
  LET p == FxMul(c.slope, c.token_supply)
  IN IF IsMarker(p) THEN Exit(p, c) ELSE Ok(p, c)

Linear_buy_token(c, token_amount) ==
  IF token_amount <= Fx(0) THEN InvalidInput(c)
  ELSE LET new_supply == FxAdd(c.token_supply, token_amount)
           cost == FxSub(
                     FxDiv(FxMul(c.slope, FxMul(new_supply, new_supply)),
                           Fx(2)),
                     FxDiv(FxMul(c.slope,
                                 FxMul(c.token_supply, c.token_supply)),
                           Fx(2)))
           m == FirstMarker(<<new_supply, cost>>)
       IN IF m # 0 THEN Exit(m, c)
          ELSE Ok(cost, [c EXCEPT !.token_supply = new_supply])

\* Linear_sell_token without the comparison of the amount with the supply
Linear_sell_token_NoSupplyCheck(c, token_amount) ==
  IF token_amount <= Fx(0) THEN InvalidInput(c)
  ELSE LET new_supply == FxSub(c.token_supply, token_amount)
           refund == FxSub(
                       FxDiv(FxMul(c.slope,
                                   FxMul(c.token_supply, c.token_supply)),
                             Fx(2)),
                       FxDiv(FxMul(c.slope, FxMul(new_supply, new_supply)),
                             Fx(2)))
           m == FirstMarker(<<new_supply, refund>>)
       IN IF m # 0 THEN Exit(m, c)
          ELSE Ok(refund, [c EXCEPT !.token_supply = new_supply])

Linear_sell_token(c, token_amount) ==
  IF token_amount <= Fx(0) \/ token_amount > c.token_supply
  THEN InvalidInput(c)
  ELSE LET new_supply == FxSub(c.token_supply, token_amount)
           refund == FxSub(
                       FxDiv(FxMul(c.slope,
                                   FxMul(c.token_supply, c.token_supply)),
                             Fx(2)),
                       FxDiv(FxMul(c.slope, FxMul(new_supply, new_supply)),
                             Fx(2)))
           m == FirstMarker(<<new_supply, refund>>)
       IN IF m # 0 THEN Exit(m, c)
          ELSE Ok(refund, [c EXCEPT !.token_supply = new_supply])

-----------------------------------------------------------------------------
(* Exponential *)

Exponential_pow_fixed(base, exponent) ==
  IF IsMarker(base) \/ IsMarker(exponent) THEN Marker2(base, exponent)
  ELSE LET base_f64 == to_num(base)
           exp_f64 == to_num(exponent)
           result == libm_pow(base_f64, exp_f64)
       IN IF base_f64 < 0 THEN CALC_ERR
          ELSE IF ~is_finite(result) THEN CALC_ERR
          ELSE from_num(result)

Exponential_get_price(c) ==
  LET power_result == Exponential_pow_fixed(c.token_supply, c.exponent)
      p == FxMul(c.coefficient, power_result)
      m == FirstMarker(<<power_result, p>>)
  IN IF m # 0 THEN Exit(m, c) ELSE Ok(p, c)

\* Exponential_buy_token with the amount compared by < instead of <=
Exponential_buy_token_AcceptsZero(c, token_amount) ==
  IF token_amount < Fx(0) THEN InvalidInput(c)
  ELSE LET n_plus_one == FxAdd(c.exponent, Fx(1))
           new_supply_power ==
             Exponential_pow_fixed(FxAdd(c.token_supply, token_amount),
                                   n_plus_one)
           current_supply_power ==
             Exponential_pow_fixed(c.token_supply, n_plus_one)
           cost == FxSub(
                     FxMul(FxDiv(c.coefficient, n_plus_one),
                           new_supply_power),
                     FxMul(FxDiv(c.coefficient, n_plus_one),
                           current_supply_power))
           supply_new == FxAdd(c.token_supply, token_amount)
           m == FirstMarker(<<n_plus_one, new_supply_power,
                              current_supply_power, cost, supply_new>>)
       IN IF m # 0 THEN Exit(m, c)
          ELSE Ok(cost, [c EXCEPT !.token_supply = supply_new])

Exponential_buy_token(c, token_amount) ==
  IF token_amount <= Fx(0) THEN InvalidInput(c)
  ELSE LET n_plus_one == FxAdd(c.exponent, Fx(1))
           new_supply_power ==
             Exponential_pow_fixed(FxAdd(c.token_supply, token_amount),
                                   n_plus_one)
           current_supply_power ==
             Exponential_pow_fixed(c.token_supply, n_plus_one)
           cost == FxSub(
                     FxMul(FxDiv(c.coefficient, n_plus_one),
                           new_supply_power),
                     FxMul(FxDiv(c.coefficient, n_plus_one),
                           current_supply_power))
           supply_new == FxAdd(c.token_supply, token_amount)
           m == FirstMarker(<<n_plus_one, new_supply_power,
                              current_supply_power, cost, supply_new>>)
       IN IF m # 0 THEN Exit(m, c)
          ELSE Ok(cost, [c EXCEPT !.token_supply = supply_new])

Exponential_sell_token(c, token_amount) ==
  IF token_amount <= Fx(0) \/ token_amount > c.token_supply
  THEN InvalidInput(c)
  ELSE LET n_plus_one == FxAdd(c.exponent, Fx(1))
           current_supply_power ==
             Exponential_pow_fixed(c.token_supply, n_plus_one)
           new_supply_power ==
             Exponential_pow_fixed(FxSub(c.token_supply, token_amount),
                                   n_plus_one)
           refund == FxSub(
                       FxMul(FxDiv(c.coefficient, n_plus_one),
                             current_supply_power),
                       FxMul(FxDiv(c.coefficient, n_plus_one),
                             new_supply_power))
           supply_new == FxSub(c.token_supply, token_amount)
           m == FirstMarker(<<n_plus_one, current_supply_power,
                              new_supply_power, refund, supply_new>>)
       IN IF m # 0 THEN Exit(m, c)
          ELSE Ok(refund, [c EXCEPT !.token_supply = supply_new])

-----------------------------------------------------------------------------
(* Logarithmic *)

Logarithmic_ln_fixed(value) ==
  IF IsMarker(value) THEN value
  ELSE LET value_f64 == to_num(value)
           result == libm_log(value_f64)
       IN IF value_f64 <= 0 THEN CALC_ERR
          ELSE IF ~is_finite(result) THEN CALC_ERR
          ELSE from_num(result)

Logarithmic_get_price(c) ==
  LET supply_plus_const == FxAdd(c.token_supply, c.constant)
      ln_result == Logarithmic_ln_fixed(supply_plus_const)
      p == FxMul(c.coefficient, ln_result)
      m == FirstMarker(<<supply_plus_const, ln_result, p>>)
  IN IF IsMarker(supply_plus_const) THEN Exit(supply_plus_const, c)
     ELSE IF supply_plus_const <= Fx(0) THEN CalculationError(c)
     ELSE IF m # 0 THEN Exit(m, c)
     ELSE Ok(p, c)

Logarithmic_buy_token(c, token_amount) ==
  IF token_amount <= Fx(0) THEN InvalidInput(c)
  ELSE LET s_new == FxAdd(FxAdd(c.token_supply, token_amount), c.constant)
           s_old == FxAdd(c.token_supply, c.constant)
           ln_s_new == Logarithmic_ln_fixed(s_new)
           ln_s_old == Logarithmic_ln_fixed(s_old)
           cost == FxSub(
                     FxMul(c.coefficient,
                           FxSub(FxMul(s_new, ln_s_new), s_new)),
                     FxMul(c.coefficient,
                           FxSub(FxMul(s_old, ln_s_old), s_old)))
           supply_new == FxAdd(c.token_supply, token_amount)
           m == FirstMarker(<<s_new, s_old, ln_s_new, ln_s_old, cost,
                              supply_new>>)
       IN IF m # 0 THEN Exit(m, c)
          ELSE Ok(cost, [c EXCEPT !.token_supply = supply_new])

\* Logarithmic_sell_token that reaches the domain check of the logarithm
\* without comparing the amount with the supply
Logarithmic_sell_token_DomainFirst(c, token_amount) ==
  IF token_amount <= Fx(0)
  THEN InvalidInput(c)
  ELSE LET s_old == FxAdd(c.token_supply, c.constant)
           s_new == FxAdd(FxSub(c.token_supply, token_amount), c.constant)
           ln_s_old == Logarithmic_ln_fixed(s_old)
           ln_s_new == Logarithmic_ln_fixed(s_new)
           refund == FxSub(
                       FxMul(c.coefficient,
                             FxSub(FxMul(s_old, ln_s_old), s_old)),
                       FxMul(c.coefficient,
                             FxSub(FxMul(s_new, ln_s_new), s_new)))
           supply_new == FxSub(c.token_supply, token_amount)
           m0 == FirstMarker(<<s_old, s_new>>)
           m == FirstMarker(<<ln_s_old, ln_s_new, refund, supply_new>>)
       IN IF m0 # 0 THEN Exit(m0, c)
          ELSE IF s_new <= Fx(0) THEN CalculationError(c)
          ELSE IF m # 0 THEN Exit(m, c)
          ELSE Ok(refund, [c EXCEPT !.token_supply = supply_new])

Logarithmic_sell_token(c, token_amount) ==
  IF token_amount <= Fx(0) \/ token_amount > c.token_supply
  THEN InvalidInput(c)
  ELSE LET s_old == FxAdd(c.token_supply, c.constant)
           s_new == FxAdd(FxSub(c.token_supply, token_amount), c.constant)
           ln_s_old == Logarithmic_ln_fixed(s_old)
           ln_s_new == Logarithmic_ln_fixed(s_new)
           refund == FxSub(
                       FxMul(c.coefficient,
                             FxSub(FxMul(s_old, ln_s_old), s_old)),
                       FxMul(c.coefficient,
                             FxSub(FxMul(s_new, ln_s_new), s_new)))
           supply_new == FxSub(c.token_supply, token_amount)
           m0 == FirstMarker(<<s_old, s_new>>)
           m == FirstMarker(<<ln_s_old, ln_s_new, refund, supply_new>>)
       IN IF m0 # 0 THEN Exit(m0, c)
          ELSE IF s_new <= Fx(0) THEN CalculationError(c)
          ELSE IF m # 0 THEN Exit(m, c)
          ELSE Ok(refund, [c EXCEPT !.token_supply = supply_new])

-----------------------------------------------------------------------------
(* Sigmoid *)

Sigmoid_exp_fixed(value) ==
  IF IsMarker(value) THEN value
  ELSE LET value_f64 == to_num(value)
           result == libm_exp(value_f64)
       IN IF ~is_finite(result) THEN CALC_ERR ELSE from_num(result)

Sigmoid_ln_fixed(value) ==
  IF IsMarker(value) THEN value
  ELSE LET value_f64 == to_num(value)
           result == libm_log(value_f64)
       IN IF value_f64 <= 0 THEN CALC_ERR
          ELSE IF ~is_finite(result) THEN CALC_ERR
          ELSE from_num(result)

\* Sigmoid_get_price with the supply not measured from the midpoint
Sigmoid_get_price_NoMidpoint(c) ==
  LET exponent == FxMul(FxNeg(c.steepness),
                        c.token_supply)
      exp_result == Sigmoid_exp_fixed(exponent)
      denominator == FxAdd(Fx(1), exp_result)
      p == FxDiv(c.max_price, denominator)
      m == FirstMarker(<<exponent, exp_result, denominator, p>>)
  IN IF m # 0 THEN Exit(m, c) ELSE Ok(p, c)

Sigmoid_get_price(c) ==
  LET exponent == FxMul(FxNeg(c.steepness),
                        FxSub(c.token_supply, c.midpoint))
      exp_result == Sigmoid_exp_fixed(exponent)
      denominator == FxAdd(Fx(1), exp_result)
      p == FxDiv(c.max_price, denominator)
      m == FirstMarker(<<exponent, exp_result, denominator, p>>)
  IN IF m # 0 THEN Exit(m, c) ELSE Ok(p, c)

Sigmoid_buy_token(c, token_amount) ==
  IF token_amount <= Fx(0) THEN InvalidInput(c)
  ELSE LET k == c.steepness
           s_new == FxSub(FxAdd(c.token_supply, token_amount), c.midpoint)
           s_old == FxSub(c.token_supply, c.midpoint)
           exp_k_s_new == Sigmoid_exp_fixed(FxMul(k, s_new))
           exp_k_s_old == Sigmoid_exp_fixed(FxMul(k, s_old))
           ln_term_new == Sigmoid_ln_fixed(FxAdd(Fx(1), exp_k_s_new))
           ln_term_old == Sigmoid_ln_fixed(FxAdd(Fx(1), exp_k_s_old))
           cost == FxSub(FxMul(FxDiv(c.max_price, k), ln_term_new),
                         FxMul(FxDiv(c.max_price, k), ln_term_old))
           supply_new == FxAdd(c.token_supply, token_amount)
           m == FirstMarker(<<s_new, s_old, exp_k_s_new, exp_k_s_old,
                              ln_term_new, ln_term_old, cost, supply_new>>)
       IN IF m # 0 THEN Exit(m, c)
          ELSE Ok(cost, [c EXCEPT !.token_supply = supply_new])

Sigmoid_sell_token(c, token_amount) ==
  IF token_amount <= Fx(0) \/ token_amount > c.token_supply
  THEN InvalidInput(c)
  ELSE LET k == c.steepness
           s_old == FxSub(c.token_supply, c.midpoint)
           s_new == FxSub(FxSub(c.token_supply, token_amount), c.midpoint)
           exp_k_s_old == Sigmoid_exp_fixed(FxMul(k, s_old))
           exp_k_s_new == Sigmoid_exp_fixed(FxMul(k, s_new))
           ln_term_old == Sigmoid_ln_fixed(FxAdd(Fx(1), exp_k_s_old))
           ln_term_new == Sigmoid_ln_fixed(FxAdd(Fx(1), exp_k_s_new))
           refund == FxSub(FxMul(FxDiv(c.max_price, k), ln_term_old),
                           FxMul(FxDiv(c.max_price, k), ln_term_new))
           supply_new == FxSub(c.token_supply, token_amount)
           m == FirstMarker(<<s_old, s_new, exp_k_s_old, exp_k_s_new,
                              ln_term_old, ln_term_new, refund, supply_new>>)
       IN IF m # 0 THEN Exit(m, c)
          ELSE Ok(refund, [c EXCEPT !.token_supply = supply_new])

-----------------------------------------------------------------------------
(* Constructors.  An f64 argument is a multiple of 1 / ParamScale, or NaN or *)
(* +infinity; an i64 argument is an integer.                                *)

ParamScale == 256

IsNaN(p) == p = F64_NAN

\* p <= 0.0, p > 1.0, p < 0.0 on f64: every comparison with NaN is false
FLe0(p) == ~IsNaN(p) /\ p # F64_INF /\ p <= 0

FLt0(p) == ~IsNaN(p) /\ p # F64_INF /\ p < 0

FGt1(p) == ~IsNaN(p) /\ (p = F64_INF \/ p > ParamScale)

\* I64F64::from_num(p) for an f64 argument: nearest, ties to even; panics
\* when p is not finite; panics (debug) or wraps (release) when it does not
\* fit
from_f64(p) ==
  IF ~is_finite(p) THEN PANIC
  ELSE Checked(RoundHalfEven(p * Scale, ParamScale))

\* I64F64::from_num(n) for an i64 argument
from_i64(n) == Fx(n)

Bancor_new(reserve_balance, token_supply, connector_weight) ==
  IF FLe0(connector_weight) \/ FGt1(connector_weight)
  THEN InvalidInput(NoCurve)
  ELSE IF token_supply = 0 /\ reserve_balance # 0 THEN InvalidInput(NoCurve)
  ELSE IF reserve_balance = 0 /\ token_supply # 0 THEN InvalidInput(NoCurve)
  ELSE IF reserve_balance < 0 \/ token_supply < 0 THEN InvalidInput(NoCurve)
  ELSE LET w == from_f64(connector_weight)
       IN IF IsMarker(w) THEN Panic(NoCurve)
          ELSE Ok(0, [variant |-> "Bancor",
                      reserve_balance |-> from_i64(reserve_balance),
                      token_supply |-> from_i64(token_supply),
                      connector_weight |-> w])

Linear_new(slope) ==
  IF FLe0(slope) THEN InvalidInput(NoCurve)
  ELSE LET k == from_f64(slope)
       IN IF IsMarker(k) THEN Panic(NoCurve)
          ELSE Ok(0, [variant |-> "Linear", slope |-> k,
                      token_supply |-> Fx(0)])

Exponential_new(coefficient, exponent) ==
  IF FLe0(coefficient) \/ FLe0(exponent)
     \/ ~is_finite(coefficient) \/ ~is_finite(exponent)
  THEN InvalidInput(NoCurve)
  ELSE LET co == from_f64(coefficient)
           ex == from_f64(exponent)
       IN IF IsMarker(co) \/ IsMarker(ex) THEN Panic(NoCurve)
          ELSE Ok(0, [variant |-> "Exponential", coefficient |-> co,
                      exponent |-> ex, token_supply |-> Fx(0)])

Logarithmic_new(coefficient, constant) ==
  IF FLe0(coefficient) \/ FLe0(constant)
     \/ ~is_finite(coefficient) \/ ~is_finite(constant)
  THEN InvalidInput(NoCurve)
  ELSE LET co == from_f64(coefficient)
           k == from_f64(constant)
       IN IF IsMarker(co) \/ IsMarker(k) THEN Panic(NoCurve)
          ELSE Ok(0, [variant |-> "Logarithmic", coefficient |-> co,
                      constant |-> k, token_supply |-> Fx(0)])

Sigmoid_new(max_price, steepness, midpoint) ==
  IF FLe0(max_price) \/ FLe0(steepness) \/ FLt0(midpoint)
     \/ ~is_finite(max_price) \/ ~is_finite(steepness)
     \/ ~is_finite(midpoint)
  THEN InvalidInput(NoCurve)
  ELSE LET mp == from_f64(max_price)
           st == from_f64(steepness)
           mi == from_f64(midpoint)
       IN IF IsMarker(mp) \/ IsMarker(st) \/ IsMarker(mi)
          THEN Panic(NoCurve)
          ELSE Ok(0, [variant |-> "Sigmoid", max_price |-> mp,
                      steepness |-> st, midpoint |-> mi,
                      token_supply |-> Fx(0)])

-----------------------------------------------------------------------------
(* trait BondingCurve: dispatch on the variant *)

get_price(c) ==
  CASE c.variant = "Bancor" -> Bancor_get_price(c)
    [] c.variant = "Linear" -> Linear_get_price(c)
    [] c.variant = "Exponential" -> Exponential_get_price(c)
    [] c.variant = "Logarithmic" -> Logarithmic_get_price(c)
    [] c.variant = "Sigmoid" -> Sigmoid_get_price(c)

buy_token(c, amount) ==
  CASE c.variant = "Bancor" -> Bancor_buy_token(c, amount)
    [] c.variant = "Linear" -> Linear_buy_token(c, amount)
    [] c.variant = "Exponential" -> Exponential_buy_token(c, amount)
    [] c.variant = "Logarithmic" -> Logarithmic_buy_token(c, amount)
    [] c.variant = "Sigmoid" -> Sigmoid_buy_token(c, amount)

sell_token(c, amount) ==
  CASE c.variant = "Bancor" -> Bancor_sell_token(c, amount)
    [] c.variant = "Linear" -> Linear_sell_token(c, amount)
    [] c.variant = "Exponential" -> Exponential_sell_token(c, amount)
    [] c.variant = "Logarithmic" -> Logarithmic_sell_token(c, amount)
    [] c.variant = "Sigmoid" -> Sigmoid_sell_token(c, amount)

\* get_supply that hands the supply out and leaves the curve without it
get_supply_Draining(c) ==
  Ok(c.token_supply, [c EXCEPT !.token_supply = Fx(0)])

get_supply(c) == Ok(c.token_supply, c)

\* get_reserve that reports the token supply of a Bancor curve
get_reserve_OfSupply(c) ==
  IF c.variant = "Bancor"
  THEN [res |-> "Some", val |-> c.token_supply, curve |-> c]
  ELSE [res |-> "None", val |-> 0, curve |-> c]

get_reserve(c) ==
  IF c.variant = "Bancor"
  THEN [res |-> "Some", val |-> c.reserve_balance, curve |-> c]
  ELSE [res |-> "None", val |-> 0, curve |-> c]

-----------------------------------------------------------------------------
(* helpers.rs *)

ln_fixed(value) ==
  LET value_f64 == to_num(value)
      result == libm_log(value_f64)
  IN IF value_f64 <= 0 THEN CALC_ERR
     ELSE IF ~is_finite(result) THEN CALC_ERR
     ELSE from_num(result)

pow_fixed(base, exponent) ==
  LET base_f64 == to_num(base)
      exp_f64 == to_num(exponent)
      result == libm_pow(base_f64, exp_f64)
  IN IF base_f64 < 0 /\ HasFraction(exp_f64) THEN CALC_ERR
     ELSE IF ~is_finite(result) THEN CALC_ERR
     ELSE from_num(result)

sqrt_fixed(value) ==
  LET value_f64 == to_num(value)
      result == libm_sqrt(value_f64)
  IN IF value_f64 < 0 THEN CALC_ERR
     ELSE IF ~is_finite(result) THEN CALC_ERR
     ELSE from_num(result)

-----------------------------------------------------------------------------
(* Inputs *)

MaxOps == 3

Builds == {"debug", "release"}

\* token and reserve amounts (raw): -1, 0, 1/16, 1, 10, 1024
Amounts == {-16, 0, 1, 16, 160, 16384}

\* i64 arguments of Bancor::new
BancorInts == {-1, 0, 1, 4}

\* f64 arguments, in units of 1 / ParamScale
Weights == {0, 1, 64, 256, 257, F64_NAN}

\* 1048576 is 4096.0, beyond the largest fixed-point value
Slopes == {0, 1, 128, 512, 1048576, F64_NAN, F64_INF}

Coefficients == {-256, 256, 512, F64_NAN}

Exponents == {0, 1, 128, 256, 512}

LogConstants == {0, 128, 256, 2560}

MaxPrices == {0, 272, 2560}

Steepnesses == {0, 64, 256, F64_INF}

Midpoints == {-256, 0, 2560, 25600}

\* arguments of the transcendental helpers (raw): -2, -1, -1/16, 0, 1/16,
\* 1/2, 1, 2, 4, 10, 16, 256, 2047.9375
HelperValues == {-32, -16, -1, 0, 1, 8, 16, 32, 64, 160, 256, 4096, 32767}

\* exponents (raw): -1, 0, 1/2, 1, 1.25, 1.5, 2, 3
HelperExponents == {-16, 0, 8, 16, 20, 24, 32, 48}

-----------------------------------------------------------------------------
(* The state machine *)

NoCall == [op |-> "none", arg |-> 0, res |-> "none", val |-> 0,
           pre |-> NoCurve]

Call(op, arg, r, c) ==
  [op |-> op, arg |-> arg, res |-> r.res, val |-> r.val, pre |-> c]

Init ==
  /\ build \in Builds
  /\ curve = NoCurve
  /\ last = NoCall
  /\ obs = NoCall
  /\ nops = 0
  /\ paid = 0

Constructing == curve = NoCurve /\ last.op = "none"

Constructed(r, args) ==
  /\ Constructing
  /\ curve' = r.curve
  /\ last' = Call("new", args, r, curve)
  /\ UNCHANGED <<build, obs, nops, paid>>

BancorNew ==
  \E rb \in BancorInts, ts \in BancorInts, cw \in Weights :
    Constructed(Bancor_new(rb, ts, cw), <<rb, ts, cw>>)

LinearNew ==
  \E sl \in Slopes : Constructed(Linear_new(sl), <<sl>>)

ExponentialNew ==
  \E co \in Coefficients, ex \in Exponents :
    Constructed(Exponential_new(co, ex), <<co, ex>>)

LogarithmicNew ==
  \E co \in Coefficients, k \in LogConstants :
    Constructed(Logarithmic_new(co, k), <<co, k>>)

SigmoidNew ==
  \E mp \in MaxPrices, st \in Steepnesses, mi \in Midpoints :
    Constructed(Sigmoid_new(mp, st, mi), <<mp, st, mi>>)

\* a curve exists and no call has unwound
Running ==
  /\ curve.variant # "None"
  /\ last.res # "Panic"
  /\ obs.res # "Panic"

\* What the callers of this instance have paid in so far, less what they
\* were paid out: the values returned by its successful buys minus the
\* values returned by its successful sells.
Paid(op, r) ==
  IF r.res # "Ok" THEN paid
  ELSE IF op = "buy_token" THEN paid + r.val ELSE paid - r.val

Mutating(op, amount, r) ==
  /\ Running
  /\ nops < MaxOps
  /\ curve' = r.curve
  /\ last' = Call(op, amount, r, curve)
  /\ obs' = NoCall
  /\ nops' = nops + 1
  /\ paid' = Paid(op, r)
  /\ UNCHANGED build

BuyToken ==
  \E amount \in Amounts :
    Mutating("buy_token", amount, buy_token(curve, amount))

\* A seller may also offer the whole supply, or the tokens the buy just
\* before issued.
SellAmounts ==
  IF curve.variant = "None" THEN Amounts
  ELSE Amounts \cup {curve.token_supply}
               \cup (IF last.op = "buy_token" /\ last.res = "Ok"
                        /\ curve.variant = "Bancor"
                     THEN {last.val} ELSE {})

SellToken ==
  \E amount \in SellAmounts :
    Mutating("sell_token", amount, sell_token(curve, amount))

Observing(op, r) ==
  /\ Running
  /\ curve' = r.curve
  /\ obs' = Call(op, 0, r, curve)
  /\ UNCHANGED <<build, last, nops, paid>>

GetPrice == Observing("get_price", get_price(curve))

GetSupply == Observing("get_supply", get_supply(curve))

GetReserve == Observing("get_reserve", get_reserve(curve))

Next ==
  \/ BancorNew
  \/ LinearNew
  \/ ExponentialNew
  \/ LogarithmicNew
  \/ SigmoidNew
  \/ BuyToken
  \/ SellToken
  \/ GetPrice
  \/ GetSupply
  \/ GetReserve

Spec == Init /\ [][Next]_vars

\* The transcendental helpers are pure functions of their arguments; they
\* are applied here on their own, to every argument of HelperValues.
HelperResult(m) == IF IsMarker(m) THEN Exit(m, NoCurve) ELSE Ok(m, NoCurve)

Helped(op, args, m) ==
  /\ curve = NoCurve
  /\ last' = Call(op, args, HelperResult(m), NoCurve)
  /\ UNCHANGED <<build, curve, obs, nops, paid>>

LnFixed ==
  \E v \in HelperValues : Helped("ln_fixed", <<v>>, ln_fixed(v))

SqrtFixed ==
  \E v \in HelperValues : Helped("sqrt_fixed", <<v>>, sqrt_fixed(v))

PowFixed ==
  \E b \in HelperValues, x \in HelperExponents :
    Helped("pow_fixed", <<b, x>>, pow_fixed(b, x))

ExponentialPowFixed ==
  \E b \in HelperValues, x \in HelperExponents :
    Helped("Exponential::pow_fixed", <<b, x>>, Exponential_pow_fixed(b, x))

LogarithmicLnFixed ==
  \E v \in HelperValues :
    Helped("Logarithmic::ln_fixed", <<v>>, Logarithmic_ln_fixed(v))

HelperNext ==
  \/ LnFixed
  \/ SqrtFixed
  \/ PowFixed
  \/ ExponentialPowFixed
  \/ LogarithmicLnFixed

HelperSpec == Init /\ [][HelperNext]_vars

-----------------------------------------------------------------------------
(* Claims *)

IsTrade(c) == c.op \in {"buy_token", "sell_token"}

Returned(c) == c.res \in {"Ok", "InvalidInput", "CalculationError"}

\* C1: a buy_token or sell_token that returns InvalidInput or
\* CalculationError leaves every field of the curve as it was before the call.
C1_ErrorLeavesCurveUnchanged ==
  (IsTrade(last) /\ last.res \in {"InvalidInput", "CalculationError"})
    => curve = last.pre

C1_Witness ==
  /\ IsTrade(last)
  /\ last.res = "CalculationError"
  /\ last.pre.token_supply > 0
  /\ curve = last.pre

\* C2: for Bancor, after any sequence of successful calls reserve_balance
\* and token_supply are both >= 0.
C2_BancorNonNegative ==
  (curve.variant = "Bancor" /\ Returned(last))
    => (curve.reserve_balance >= 0 /\ curve.token_supply >= 0)

\* C3: for Bancor, after any sequence of successful calls token_supply is 0
\* exactly when reserve_balance is 0.
C3_BancorZeroTogether ==
  (curve.variant = "Bancor" /\ Returned(last))
    => ((curve.token_supply = 0) <=> (curve.reserve_balance = 0))

\* C4: for Linear, Exponential, Logarithmic and Sigmoid token_supply is >= 0
\* after any sequence of calls that returned.
C4_SupplyNonNegative ==
  (curve.variant \in {"Linear", "Exponential", "Logarithmic", "Sigmoid"}
     /\ Returned(last))
    => curve.token_supply >= 0

\* C5: whenever get_price returns a value, the value is >= 0.
C5_PriceNonNegative ==
  (obs.op = "get_price" /\ obs.res = "Ok") => obs.val >= 0

NonBancor(c) ==
  c.variant \in {"Linear", "Exponential", "Logarithmic", "Sigmoid"}

\* a step from a state whose last call is a successful buy_token(d) by the
\* call sell_token(d)
BuyThenSell ==
  /\ last.op = "buy_token"
  /\ last.res = "Ok"
  /\ nops' = nops + 1
  /\ last'.op = "sell_token"
  /\ last'.arg = last.arg

\* C6: for Linear, Exponential, Logarithmic and Sigmoid a successful
\* buy_token(d) followed at once by sell_token(d) succeeds, puts token_supply
\* back to its value before the buy, and refunds no more than the buy cost.
C6_RoundTrip ==
  [][(NonBancor(curve) /\ BuyThenSell)
       => /\ last'.res = "Ok"
          /\ curve'.token_supply = last.pre.token_supply
          /\ last'.val <= last.val]_vars

\* tolerance of the round-trip comparisons, in units of 2^-FracBits
Tolerance == 2

Near(a, b) == Abs(a - b) <= Tolerance

\* a step from a state whose last call is a successful buy_token(d) on a
\* Bancor curve that had supply > 0, by the call that sells the tokens issued
BancorBuyThenSellBack ==
  /\ curve.variant = "Bancor"
  /\ last.op = "buy_token"
  /\ last.res = "Ok"
  /\ last.pre.token_supply > 0
  /\ nops' = nops + 1
  /\ last'.op = "sell_token"
  /\ last'.arg = last.val

\* C7: for Bancor with token_supply > 0, buy_token(d) followed at once by
\* selling the tokens it issued puts token_supply and reserve_balance back
\* within tolerance and returns no more reserve than d.
C7_BancorRoundTrip ==
  [][BancorBuyThenSellBack
       => /\ last'.res = "Ok"
          /\ Near(curve'.token_supply, last.pre.token_supply)
          /\ Near(curve'.reserve_balance, last.pre.reserve_balance)
          /\ last'.val <= last.arg]_vars

\* C8: a successful buy_token(amount) with amount > 0 leaves token_supply
\* strictly greater than before and, for Bancor, reserve_balance too.
C8_BuyIncreasesSupply ==
  (last.op = "buy_token" /\ last.res = "Ok" /\ last.arg > 0)
    => /\ curve.token_supply > last.pre.token_supply
       /\ curve.variant = "Bancor"
            => curve.reserve_balance > last.pre.reserve_balance

\* the curve exists and every call so far returned
Alive ==
  /\ curve.variant # "None"
  /\ last.res # "Panic"
  /\ obs.res # "Panic"

CanBuy == \E amount \in 1..MaxRaw : buy_token(curve, amount).res = "Ok"

\* C9: no reachable state is terminal: in every state reached by calls that
\* returned there is a positive amount for which buy_token succeeds.
C9_CanAlwaysBuy == Alive => CanBuy

\* C10: sell_token(amount) with amount <= 0 or amount > token_supply returns
\* InvalidInput and leaves the curve unchanged.
C10_SellRejectsBadAmount ==
  (last.op = "sell_token"
     /\ (last.arg <= 0 \/ last.arg > last.pre.token_supply))
    => (last.res = "InvalidInput" /\ curve = last.pre)

C10_Witness ==
  /\ last.op = "sell_token"
  /\ last.pre.token_supply > 0
  /\ last.arg > last.pre.token_supply
  /\ last.res = "InvalidInput"
  /\ curve = last.pre

\* C11: buy_token(amount) with amount <= 0 returns InvalidInput and leaves
\* the curve unchanged, in every variant and every reachable state.
C11_BuyRejectsNonPositive ==
  (last.op = "buy_token" /\ last.arg <= 0)
    => (last.res = "InvalidInput" /\ curve = last.pre)

C11_Witness ==
  /\ last.op = "buy_token"
  /\ last.arg < 0
  /\ last.pre.token_supply > 0
  /\ last.res = "InvalidInput"
  /\ curve = last.pre

\* C12: in a state with token_supply S > 0, sell_token(S) succeeds and
\* leaves token_supply exactly 0, in every variant.
C12_SellWholeSupply ==
  (last.op = "sell_token" /\ last.pre.token_supply > 0
     /\ last.arg = last.pre.token_supply)
    => (last.res = "Ok" /\ curve.token_supply = 0)

\* the outcome the constructor tables give: an instance when the arguments
\* are valid, InvalidInput and no instance otherwise
Accepts(variant) == last'.res = "Ok" /\ curve'.variant = variant

Rejects == last'.res = "InvalidInput" /\ curve' = NoCurve

\* a finite f64 argument that is > 0, and one that is >= 0
Positive(p) == is_finite(p) /\ p > 0

NonNegative(p) == is_finite(p) /\ p >= 0

BancorArgsValid(a) ==
  /\ ~IsNaN(a[3]) /\ a[3] > 0 /\ a[3] <= ParamScale
  /\ a[1] >= 0
  /\ a[2] >= 0
  /\ (a[1] = 0) <=> (a[2] = 0)

\* C13: Bancor::new(reserve, supply, weight) returns an instance exactly when
\* 0 < weight <= 1, reserve >= 0, supply >= 0 and reserve = 0 <=> supply = 0;
\* for every other combination it returns InvalidInput and no instance
\* exists.
C13_BancorNewValidates ==
  [][BancorNew
       => IF BancorArgsValid(last'.arg) THEN Accepts("Bancor")
          ELSE Rejects]_vars

\* C14: Linear::new, Exponential::new, Logarithmic::new and Sigmoid::new
\* return an instance with token_supply = 0 exactly when their parameters are
\* finite and satisfy slope > 0; coefficient > 0 and exponent > 0;
\* coefficient > 0 and constant > 0; max_price > 0, steepness > 0 and
\* midpoint >= 0; otherwise they return InvalidInput.
C14_NewValidates ==
  [][LET a == last'.arg
         Fresh(variant) == Accepts(variant) /\ curve'.token_supply = Fx(0)
     IN /\ LinearNew
             => IF Positive(a[1]) THEN Fresh("Linear") ELSE Rejects
        /\ ExponentialNew
             => IF Positive(a[1]) /\ Positive(a[2])
                THEN Fresh("Exponential") ELSE Rejects
        /\ LogarithmicNew
             => IF Positive(a[1]) /\ Positive(a[2])
                THEN Fresh("Logarithmic") ELSE Rejects
        /\ SigmoidNew
             => IF Positive(a[1]) /\ Positive(a[2]) /\ NonNegative(a[3])
                THEN Fresh("Sigmoid") ELSE Rejects]_vars

\* supplies at which the price function is compared (raw): 0, 1/16, 1/2,
\* 1, 1 + 1/16, 5, 10, 25, 100, 1000, 1024 and the largest value
PriceSupplies == {0, 1, 8, 16, 17, 80, 160, 400, 1600, 16000, 16384, MaxRaw}

\* get_price of the curve c with its supply set to s
PriceAt(c, s) == get_price([c EXCEPT !.token_supply = s])

PriceDefined(c) == get_price(c).res = "Ok"

\* price(c1) <= price(c2) wherever both are defined
PriceNotAbove(c1, c2) ==
  (PriceDefined(c1) /\ PriceDefined(c2))
    => get_price(c1).val <= get_price(c2).val

\* C15: for Linear, Exponential, Logarithmic and Sigmoid with fixed
\* parameters get_price is non-decreasing in token_supply: price(S1) <=
\* price(S2) for supplies S1 <= S2 at which the price is defined; a
\* successful buy never lowers the price and a successful sell never raises
\* it.
C15_PriceMonotone ==
  NonBancor(curve)
    => /\ \A s1 \in PriceSupplies, s2 \in PriceSupplies :
            s1 <= s2
              => PriceNotAbove([curve EXCEPT !.token_supply = s1],
                               [curve EXCEPT !.token_supply = s2])
       /\ (last.op = "buy_token" /\ last.res = "Ok")
            => PriceNotAbove(last.pre, curve)
       /\ (last.op = "sell_token" /\ last.res = "Ok")
            => PriceNotAbove(curve, last.pre)

\* reserve / (supply * weight) in exact integer arithmetic on raw values,
\* with the rounding of the fixed-point product and quotient and without
\* their overflow; 0 when the product is 0
SpotPrice(c) ==
  LET product == (c.token_supply * c.connector_weight) \div Scale
  IN IF product = 0 THEN 0
     ELSE TruncDiv(c.reserve_balance * Scale, product)

BancorBuyOk ==
  /\ curve.variant = "Bancor"
  /\ last.op = "buy_token"
  /\ last.res = "Ok"
  /\ last.arg > 0

\* C16: Bancor buy_token(d) with d > 0 issues d / 0.0001 tokens when
\* token_supply is 0 and otherwise d / P, P = reserve_balance /
\* (token_supply * connector_weight) before the call; reserve_balance
\* increases by exactly d and token_supply by exactly the tokens returned.
C16_BancorBuy ==
  BancorBuyOk
    => LET P == SpotPrice(last.pre)
           d == last.arg
       IN /\ IF last.pre.token_supply = 0
             THEN last.val = TruncDiv(d * Scale, BootstrapPrice)
             ELSE P # 0 /\ last.val = TruncDiv(d * Scale, P)
          /\ curve.reserve_balance = last.pre.reserve_balance + d
          /\ curve.token_supply = last.pre.token_supply + last.val

BancorSellOk ==
  /\ curve.variant = "Bancor"
  /\ last.op = "sell_token"
  /\ last.res = "Ok"
  /\ last.arg > 0
  /\ last.arg <= last.pre.token_supply

\* C17: Bancor sell_token(d) with 0 < d <= token_supply returns d * P, P the
\* price computed from the reserve and supply before the call, and then
\* decreases token_supply by exactly d and reserve_balance by exactly the
\* amount returned.
C17_BancorSell ==
  BancorSellOk
    => LET P == SpotPrice(last.pre)
           d == last.arg
       IN /\ last.val = (d * P) \div Scale
          /\ curve.token_supply = last.pre.token_supply - d
          /\ curve.reserve_balance = last.pre.reserve_balance - last.val

\* v is k * (hi^2 - lo^2) / 2 within the rounding of the three fixed-point
\* operations of each term (two products and a halving): on raw values,
\* |v - k * (hi^2 - lo^2) / (2 * Scale^2)| < k / (2 * Scale) + 3 / 2.
\* An exact value of Modulus or more has no fixed-point value near it.
LinearArea(v, k, lo, hi) ==
  LET X == (hi - lo) * (hi + lo)
  IN IF k # 0 /\ Abs(X) >= 2 * Scale * Scale * Modulus THEN FALSE
     ELSE Abs(v * 2 * Scale * Scale - k * X) < (k + 3 * Scale) * Scale

\* C18: for Linear with slope k and supply S, buy_token(d) returns
\* k * ((S+d)^2 - S^2) / 2 and sets the supply to S + d, sell_token(d)
\* returns k * (S^2 - (S-d)^2) / 2 and sets the supply to S - d, and
\* get_price returns k * S, all within fixed-point rounding.
C18_LinearFormulas ==
  curve.variant = "Linear"
    => LET k == curve.slope
           S == last.pre.token_supply
           d == last.arg
       IN /\ (last.op = "buy_token" /\ last.res = "Ok")
               => /\ LinearArea(last.val, k, S, S + d)
                  /\ curve.token_supply = S + d
          /\ (last.op = "sell_token" /\ last.res = "Ok")
               => /\ LinearArea(last.val, k, S - d, S)
                  /\ curve.token_supply = S - d
          /\ (obs.op = "get_price" /\ obs.res = "Ok")
               => Abs(obs.val * Scale - k * curve.token_supply) < Scale

\* v is q * (hi^(n+1) - lo^(n+1)) within Tolerance, q the fixed-point
\* quotient c / (n+1): compared with the exact rational value for the
\* exponents n = 1 and n = 2 (for n = 2 while the supplies are within 25.0);
\* other cases are not compared.  An exact value of Modulus or more has no
\* fixed-point value near it.
PowerArea(v, c, n, lo, hi) ==
  LET q == TruncDiv(c * Scale, n + Fx(1))
  IN IF n = Fx(1)
     THEN LET X == (hi - lo) * (hi + lo)
          IN IF q # 0 /\ Abs(X) >= 2 * Scale * Scale * Modulus THEN FALSE
             ELSE Abs(v * Scale * Scale - q * X) <= Tolerance * Scale * Scale
     ELSE IF n = Fx(2) /\ Abs(hi) <= Fx(25) /\ Abs(lo) <= Fx(25)
     THEN Abs(v * Scale * Scale * Scale - q * (hi * hi * hi - lo * lo * lo))
            <= Tolerance * Scale * Scale * Scale
     ELSE TRUE

\* p is c * S^n within Tolerance, compared for n = 1 and for n = 2 while the
\* supply is within 25.0
PowerPrice(p, c, n, S) ==
  IF n = Fx(1)
  THEN Abs(p * Scale - c * S) <= Tolerance * Scale
  ELSE IF n = Fx(2) /\ Abs(S) <= Fx(25)
  THEN Abs(p * Scale * Scale - c * S * S) <= Tolerance * Scale * Scale
  ELSE TRUE

\* C19: for Exponential with coefficient c, exponent n and supply S,
\* buy_token(d) returns (c/(n+1)) * ((S+d)^(n+1) - S^(n+1)) and sets the
\* supply to S + d, sell_token(d) returns (c/(n+1)) * (S^(n+1) -
\* (S-d)^(n+1)) and sets the supply to S - d, and get_price returns c * S^n,
\* within tolerance.
C19_ExponentialFormulas ==
  curve.variant = "Exponential"
    => LET c == curve.coefficient
           n == curve.exponent
           S == last.pre.token_supply
           d == last.arg
       IN /\ (last.op = "buy_token" /\ last.res = "Ok")
               => /\ PowerArea(last.val, c, n, S, S + d)
                  /\ curve.token_supply = S + d
          /\ (last.op = "sell_token" /\ last.res = "Ok")
               => /\ PowerArea(last.val, c, n, S - d, S)
                  /\ curve.token_supply = S - d
          /\ (obs.op = "get_price" /\ obs.res = "Ok")
               => PowerPrice(obs.val, c, n, curve.token_supply)

\* C20: for any Sigmoid curve, whenever token_supply equals midpoint,
\* get_price returns exactly max_price / 2 (the fixed-point quotient).
C20_SigmoidMidpointPrice ==
  (curve.variant = "Sigmoid" /\ obs.op = "get_price"
     /\ curve.token_supply = curve.midpoint)
    => (obs.res = "Ok" /\ obs.val = TruncDiv(curve.max_price, 2))

C20_Witness ==
  /\ curve.variant = "Sigmoid"
  /\ obs.op = "get_price"
  /\ curve.midpoint > 0
  /\ curve.token_supply = curve.midpoint
  /\ obs.res = "Ok"
  /\ obs.val = TruncDiv(curve.max_price, 2)

\* C21: get_price returns exactly 0 whenever token_supply is 0 for Bancor and
\* Linear, and for a freshly constructed Exponential.
C21_ZeroPriceAtZeroSupply ==
  (obs.op = "get_price" /\ curve.token_supply = Fx(0)
     /\ \/ curve.variant \in {"Bancor", "Linear"}
        \/ curve.variant = "Exponential" /\ last.op = "new")
    => (obs.res = "Ok" /\ obs.val = Fx(0))

IsGetter(c) == c.op \in {"get_price", "get_supply", "get_reserve"}

\* C22: get_price, get_supply and get_reserve never change the curve,
\* whether they succeed or fail, and get_supply always returns the current
\* token_supply without failing.
C22_GettersDoNotMutate ==
  IsGetter(obs)
    => /\ curve = obs.pre
       /\ obs.op = "get_supply"
            => (obs.res = "Ok" /\ obs.val = curve.token_supply)

C22_Witness ==
  /\ obs.op = "get_supply"
  /\ last.op = "buy_token"
  /\ last.res = "Ok"
  /\ curve.token_supply > 0
  /\ obs.val = curve.token_supply
  /\ curve = obs.pre

\* C23: get_reserve returns Some(reserve_balance) for Bancor and None for
\* Linear, Exponential, Logarithmic and Sigmoid, in every reachable state.
C23_ReserveOnlyForBancor ==
  obs.op = "get_reserve"
    => IF curve.variant = "Bancor"
       THEN obs.res = "Some" /\ obs.val = curve.reserve_balance
       ELSE obs.res = "None"

C23_Witness ==
  /\ obs.op = "get_reserve"
  /\ curve.variant = "Bancor"
  /\ last.op = "buy_token"
  /\ last.res = "Ok"
  /\ curve.reserve_balance # curve.token_supply
  /\ obs.res = "Some"
  /\ obs.val = curve.reserve_balance

\* the fields of a curve that are fixed at construction
Parameters(c) ==
  IF c.variant = "Bancor"
  THEN [c EXCEPT !.token_supply = Fx(0), !.reserve_balance = Fx(0)]
  ELSE [c EXCEPT !.token_supply = Fx(0)]

\* C24: the parameters fixed at construction are never changed by buy_token
\* or sell_token, in any variant; only token_supply and Bancor's
\* reserve_balance change.
C24_ParametersImmutable ==
  IsTrade(last) => Parameters(curve) = Parameters(last.pre)

C24_Witness ==
  /\ last.op = "sell_token"
  /\ last.res = "Ok"
  /\ curve.variant = "Bancor"
  /\ curve.token_supply # last.pre.token_supply
  /\ curve.reserve_balance # last.pre.reserve_balance
  /\ Parameters(curve) = Parameters(last.pre)

\* a Logarithmic sell_token(d) from supply S with constant k and
\* S - d + k <= 0
LogSellBelowDomain ==
  /\ last.op = "sell_token"
  /\ last.pre.variant = "Logarithmic"
  /\ last.pre.token_supply - last.arg + last.pre.constant <= 0

\* C25 as stated: Logarithmic sell_token(d) from supply S with constant k
\* fails with a CalculationError, leaving the supply unchanged, whenever
\* S - d + k <= 0.
C25_LogSellCalculationError ==
  LogSellBelowDomain
    => (last.res = "CalculationError" /\ curve = last.pre)

\* C25 amended: Logarithmic sell_token(d) from supply S with constant k
\* fails, leaving the supply unchanged, whenever S - d + k <= 0: with
\* InvalidInput when d <= 0 or d > S, which is tested first, and with a
\* CalculationError otherwise.
C25_LogSellFails ==
  LogSellBelowDomain
    => /\ last.res = IF last.arg <= 0 \/ last.arg > last.pre.token_supply
                     THEN "InvalidInput" ELSE "CalculationError"
       /\ curve = last.pre

C25_Witness ==
  /\ LogSellBelowDomain
  /\ last.pre.token_supply > 0
  /\ last.pre.constant > 0
  /\ last.res = "InvalidInput"
  /\ curve = last.pre

\* C26: ln fails with a CalculationError for an input <= 0, sqrt for an
\* input < 0 and pow for a negative base with a non-integral exponent; every
\* other input is evaluated, and fails (with a CalculationError) only when
\* the result is not finite, which for these arguments is pow(0, e) with
\* e < 0 alone.
IsLn(c) == c.op \in {"ln_fixed", "Logarithmic::ln_fixed"}

IsPow(c) == c.op \in {"pow_fixed", "Exponential::pow_fixed"}

OutOfDomain(c) ==
  \/ IsLn(c) /\ c.arg[1] <= 0
  \/ c.op = "sqrt_fixed" /\ c.arg[1] < 0
  \/ IsPow(c) /\ c.arg[1] < 0 /\ c.arg[2] % Scale # 0

NotFinite(c) == IsPow(c) /\ c.arg[1] = 0 /\ c.arg[2] < 0

C26_HelperDomains ==
  (IsLn(last) \/ IsPow(last) \/ last.op = "sqrt_fixed")
    => IF OutOfDomain(last) \/ NotFinite(last)
       THEN last.res = "CalculationError"
       ELSE last.res = "Ok"

\* C27: on a Linear, Exponential, Logarithmic or Sigmoid curve, after a
\* sequence of successful buys and sells, the costs returned minus the
\* refunds returned equal the cost that one buy_token of the current supply
\* returns on a fresh curve with the same parameters (nothing, when the
\* supply is back at zero).
CostCurve(c) == c.variant \in {"Linear", "Exponential", "Logarithmic", "Sigmoid"}

FreshCost(c) == buy_token(Parameters(c), c.token_supply)

C27_PathIndependent ==
  (CostCurve(curve) /\ IsTrade(last) /\ last.res = "Ok")
    => IF curve.token_supply = Fx(0) THEN paid = 0
       ELSE /\ FreshCost(curve).res = "Ok"
            /\ FreshCost(curve).val = paid

\* C28: every successful buy_token and every successful sell_token returns
\* a value >= 0.
C28_ReturnsNonNegative ==
  (IsTrade(last) /\ last.res = "Ok") => last.val >= Fx(0)

\* C29: a buy_token whose new supply S + d, whose product (S + d) * (S + d)
\* (Linear) or whose quotient d / 0.0001 (Bancor, at supply 0) does not fit
\* the fixed-point range returns an error and leaves the curve as it was.
Representable(x) == MinRaw <= x /\ x <= MaxRaw

OverflowingBuy ==
  /\ last.op = "buy_token"
  /\ last.arg > Fx(0)
  /\ LET S == last.pre.token_supply
         d == last.arg
     IN \/ /\ CostCurve(last.pre)
           /\ ~Representable(S + d)
        \/ /\ last.pre.variant = "Linear"
           /\ Representable(S + d)
           /\ ~Representable(((S + d) * (S + d)) \div Scale)
        \/ /\ last.pre.variant = "Bancor"
           /\ S = Fx(0)
           /\ ~Representable((d * Scale) \div BootstrapPrice)

C29_NoOverflow ==
  OverflowingBuy
    => /\ last.res \in {"InvalidInput", "CalculationError"}
       /\ curve = last.pre

\* C30: the parameters stored in an instance that a constructor returned
\* satisfy the constraints of the data model: slope > 0, coefficient > 0
\* and exponent > 0, coefficient > 0 and constant > 0, max_price > 0 and
\* steepness > 0, connector_weight > 0.
StoredParametersValid(c) ==
  CASE c.variant = "Linear" -> c.slope > Fx(0)
    [] c.variant = "Exponential" ->
         c.coefficient > Fx(0) /\ c.exponent > Fx(0)
    [] c.variant = "Logarithmic" ->
         c.coefficient > Fx(0) /\ c.constant > Fx(0)
    [] c.variant = "Sigmoid" -> c.max_price > Fx(0) /\ c.steepness > Fx(0)
    [] c.variant = "Bancor" -> c.connector_weight > Fx(0)

C30_StoredParametersValid ==
  (last.op = "new" /\ last.res = "Ok") => StoredParametersValid(curve)

=============================================================================
